---- MODULE Spec2Model ----
(***************************************************************************)
(* Session credential management of revup-backend: the auth controller,    *)
(* the auth service token methods, the auth middleware and the enterprise  *)
(* configuration update that writes to the same table as the token store.  *)
(*                                                                         *)
(* Every handler is a sequence of steps; one step is one awaited database  *)
(* call together with the synchronous code that follows it up to the next  *)
(* await.  Requests run in slots, the expiry sweep in a process of its own.*)
(***************************************************************************)
EXTENDS Integers, Sequences, FiniteSets, TLC

\* ------------------------------------------------------------------ bounds
MaxUsers == 2
MaxReqs == 3
MaxSessionReqs == 4
MaxResetReqs == 5
MaxTime == 4

\* --------------------------------------------------------------- constants
\* Token lifetimes, in model time units (order kept: access < reset < refresh).
AccessTTL == 1
ResetTTL == 2
RefreshTTL == 3

JWT_SECRET == "JWT_SECRET"
JWT_REFRESH_SECRET == "JWT_REFRESH_SECRET"

Emails == {"A@x.com", "b@x.com"}
Passwords == {"pw1", "pw2"}
Enterprises == {"e1", "e2"}

\* the request bodies Register is tried with
RegisterInputs ==
  {[email |-> "A@x.com", password |-> "pw1", enterpriseId |-> "e1"],
   [email |-> "b@x.com", password |-> "pw1", enterpriseId |-> "e2"]}
\* the new passwords Reset Password and Change Password are tried with
NewPasswords == {"pw2"}

\* email.toLowerCase()
toLowerCase(e) == IF e = "A@x.com" THEN "a@x.com" ELSE e

\* the 'AE' role row that createDefaultRoles inserts for every enterprise
DefaultRole == "AE"

REFRESH_TOKENS == "refresh_tokens"
PASSWORD_RESET_TOKENS == "password_reset_tokens"
LEAD_FIELDS == "lead_fields"

VARIABLES
  users,      \* table users: sequence of rows, row i has id i
  configs,    \* table enterprise_configs: set of rows
  now,        \* the clock (Date.now(), in model time units)
  slots,      \* the request slots of this run
  req,        \* slot -> the request in flight in it
  nreq,       \* number of requests accepted so far
  budget,     \* number of requests this run accepts
  sweep,      \* the cleanupExpiredTokens process
  last,       \* the last response sent
  hist        \* history of what happened (observation only)

vars == <<users, configs, now, slots, req, nreq, budget, sweep, last, hist>>

Idle == [op |-> "idle"]
NoUser == [id |-> 0]
NoResponse == [n |-> 0, op |-> "none", status |-> 0, msg |-> ""]

\* ------------------------------------------------------------ Credential Hasher
\* bcrypt.hash(password, 12): salted, a fresh salt per call.
bcryptHash(password, salt) == [alg |-> "bcrypt", salt |-> salt, pw |-> password]
\* bcrypt.compare(password, hash): re-hash under the salt kept in the hash.
bcryptCompare(password, hash) == bcryptHash(password, hash.salt) = hash

\* ------------------------------------------------------------------ Token Codec
\* jwt.sign(payload, secret, {expiresIn}): the token is a function of payload,
\* secret and the second of issue.
jwtSign(payload, secret, ttl, t) ==
  [sig |-> secret, payload |-> payload, iat |-> t, exp |-> t + ttl]

\* A string that is not a JWT at all.
Malformed == [sig |-> "none"]

\* jwt.verify(token, secret) does not throw
jwtVerifyWrongAny(token, secret, t) == token.sig # "none" /\ t < token.exp
jwtVerify(token, secret, t) == token.sig = secret /\ t < token.exp

generateAccessTokenRefreshKey(user, t) ==
  jwtSign([userId |-> user.id, email |-> user.email,
           enterpriseId |-> user.enterprise_id, role |-> user.role],
          JWT_REFRESH_SECRET, AccessTTL, t)
generateAccessToken(user, t) ==
  jwtSign([userId |-> user.id, email |-> user.email,
           enterpriseId |-> user.enterprise_id, role |-> user.role],
          JWT_SECRET, AccessTTL, t)

generateRefreshToken(user, t) ==
  jwtSign([userId |-> user.id, enterpriseId |-> user.enterprise_id,
           type |-> "refresh"],
          JWT_REFRESH_SECRET, RefreshTTL, t)

\* crypto.randomBytes(32).toString('hex'): a value never produced before
generatePasswordResetToken(n) == [hex |-> n]

\* new Date(a) < new Date(b)
DateNeverLT(a, b) == FALSE
DateLT(a, b) == a < b

\* --------------------------------------------------------------- User Directory
ActiveByEmail(email) ==
  {i \in 1..Len(users) : users[i].email = toLowerCase(email) /\ users[i].is_active}

\* .eq('email', ...).eq('is_active', true).single(): exactly one row or null
findUserByEmail(email) ==
  IF Cardinality(ActiveByEmail(email)) = 1
  THEN users[CHOOSE i \in ActiveByEmail(email) : TRUE]
  ELSE NoUser

\* .eq('id', id).eq('is_active', true).single()
findUserByIdAnyStatus(id) ==
  IF id \in 1..Len(users) THEN users[id] ELSE NoUser
findUserById(id) ==
  IF id \in 1..Len(users) /\ users[id].is_active THEN users[id] ELSE NoUser

\* --------------------------------------------------------------- Token Store
\* .contains('config_data', {field: val})
contains(data, field, val) == field \in DOMAIN data /\ data[field] = val

RowsWithToken(type, token) ==
  {r \in configs : r.config_type = type /\ contains(r.config_data, "token", token)}

TokenRowUnbound(id, ent, type, userId, token, expiresAt) ==
  [id |-> id, enterprise_id |-> ent, config_type |-> type,
   config_data |-> [userId |-> 0, token |-> token, expiresAt |-> expiresAt]]
TokenRow(id, ent, type, userId, token, expiresAt) ==
  [id |-> id, enterprise_id |-> ent, config_type |-> type,
   config_data |-> [userId |-> userId, token |-> token, expiresAt |-> expiresAt]]

\* the rows a delete ... .lt('config_data->expiresAt', now) removes
ExpiredRowsLte(type, t) ==
  {r \in configs : r.config_type = type
                   /\ "expiresAt" \in DOMAIN r.config_data
                   /\ r.config_data.expiresAt <= t}
ExpiredRows(type, t) ==
  {r \in configs : r.config_type = type
                   /\ "expiresAt" \in DOMAIN r.config_data
                   /\ DateLT(r.config_data.expiresAt, t)}

\* ------------------------------------------------------------------- plumbing
Free(s) == s \in slots /\ req[s] = Idle /\ nreq < budget

\* the request is accepted and stays in flight
Begin(s, r) ==
  /\ req' = [req EXCEPT ![s] = r @@ [n |-> nreq + 1]]
  /\ nreq' = nreq + 1

\* the request is accepted and answered in the same step
Answer(s, op, r) ==
  /\ req' = req
  /\ nreq' = nreq + 1
  /\ last' = r @@ [n |-> nreq + 1, op |-> op]

Goto(s, r) == req' = [req EXCEPT ![s] = r] /\ nreq' = nreq

Respond(s, r) ==
  /\ req' = [req EXCEPT ![s] = Idle]
  /\ nreq' = nreq
  /\ last' = r @@ [n |-> req[s].n, op |-> req[s].op]

At(s, op, pc) == s \in slots /\ req[s].op = op /\ req[s].pc = pc

NoToken == [sig |-> "absent"]

\* the refresh-token values a client can put in a request body
RefreshInputs == hist.refresh \cup hist.access \cup {Malformed, NoToken}

\* ------------------------------------------------------------------- Register
\* authController.register: findUserByEmail
RegisterNoDuplicateCheck(s) ==
  /\ Free(s)
  /\ Len(users) < MaxUsers
  /\ \E in \in RegisterInputs :
       Begin(s, [op |-> "register", pc |-> "create", email |-> in.email,
                 password |-> in.password, enterpriseId |-> in.enterpriseId])
  /\ UNCHANGED <<users, configs, now, slots, budget, sweep, hist, last>>
Register(s) ==
  /\ Free(s)
  /\ Len(users) < MaxUsers
  /\ \E in \in RegisterInputs :
       IF findUserByEmail(in.email) # NoUser
       THEN Answer(s, "register",
                   [status |-> 400, msg |-> "User already exists with this email",
                    email |-> in.email])
       ELSE Begin(s, [op |-> "register", pc |-> "create", email |-> in.email,
                      password |-> in.password, enterpriseId |-> in.enterpriseId])
            /\ UNCHANGED last
  /\ UNCHANGED <<users, configs, now, slots, budget, sweep, hist>>

\* authService.createUser (the enterprise has its 'AE' role), then the tokens
\* are minted and saveRefreshToken computes expiresAt and issues findUserById
RegisterCreate(s) ==
  /\ At(s, "register", "create")
  /\ Len(users) < MaxUsers
  /\ LET user == [id |-> Len(users) + 1,
                  enterprise_id |-> req[s].enterpriseId,
                  email |-> toLowerCase(req[s].email),
                  password_hash |-> bcryptHash(req[s].password, req[s].n),
                  role |-> DefaultRole,
                  is_active |-> TRUE]
     IN /\ users' = Append(users, user)
        /\ Goto(s, [op |-> "register", pc |-> "saveFind", n |-> req[s].n,
                    user |-> user,
                    accessToken |-> generateAccessToken(user, now),
                    refreshToken |-> generateRefreshToken(user, now),
                    expiresAt |-> now + RefreshTTL])
  /\ UNCHANGED <<configs, now, slots, budget, sweep, last, hist>>

\* authService.saveRefreshToken: findUserById; user.enterprise_id throws on null
RegisterSaveFind(s) ==
  /\ At(s, "register", "saveFind")
  /\ LET u == findUserById(req[s].user.id)
     IN IF u = NoUser
        THEN Respond(s, [status |-> 500, msg |-> "Error registering user"])
        ELSE Goto(s, [req[s] EXCEPT !.pc = "saveInsert"] @@ [ent |-> u.enterprise_id])
             /\ UNCHANGED last
  /\ UNCHANGED <<users, configs, now, slots, budget, sweep, hist>>

\* authService.saveRefreshToken: insert, then the 201 response
RegisterSaveInsert(s) ==
  /\ At(s, "register", "saveInsert")
  /\ configs' = configs \cup
       {TokenRow(req[s].n, req[s].ent, REFRESH_TOKENS, req[s].user.id,
                 req[s].refreshToken, req[s].expiresAt)}
  /\ Respond(s, [status |-> 201, msg |-> "User registered successfully",
                 user |-> req[s].user.id,
                 accessToken |-> req[s].accessToken,
                 refreshToken |-> req[s].refreshToken])
  /\ hist' = [hist EXCEPT !.access = @ \cup {req[s].accessToken},
                          !.refresh = @ \cup {req[s].refreshToken},
                          !.created = @ \cup {req[s].n}]
  /\ UNCHANGED <<users, now, slots, budget, sweep>>

\* authService.saveRefreshToken: the insert returns an error, the service
\* throws 'Failed to save refresh token' and register's catch answers 500
RegisterSaveInsertFault(s) ==
  /\ At(s, "register", "saveInsert")
  /\ Respond(s, [status |-> 500, msg |-> "Error registering user",
                 email |-> req[s].user.email])
  /\ UNCHANGED <<users, configs, now, slots, budget, sweep, hist>>

\* ---------------------------------------------------------------------- Login
LoginUserNotFound == "Invalid credentials, user not found"
LoginWrongPassword == "Invalid credentials, check your password"

\* authController.login: findUserByEmail, bcrypt.compare, the two tokens
Login(s) ==
  /\ Free(s)
  /\ \E e \in Emails, p \in Passwords :
       LET user == findUserByEmail(e)
           accessToken == generateAccessToken(user, now)
           refreshToken == generateRefreshToken(user, now)
       IN IF user = NoUser
          THEN /\ Answer(s, "login", [status |-> 401, msg |-> LoginUserNotFound,
                                      email |-> e, password |-> p])
               /\ hist' = [hist EXCEPT !.loginFail = @ \cup
                             {[cause |-> "lookup", status |-> 401,
                               msg |-> LoginUserNotFound]}]
          ELSE IF ~bcryptCompare(p, user.password_hash)
          THEN /\ Answer(s, "login", [status |-> 401, msg |-> LoginWrongPassword,
                                      email |-> e, password |-> p])
               /\ hist' = [hist EXCEPT !.loginFail = @ \cup
                             {[cause |-> "password", status |-> 401,
                               msg |-> LoginWrongPassword]}]
          ELSE /\ Answer(s, "login",
                         [status |-> 200, msg |-> "Login successful",
                          email |-> e, password |-> p,
                          user |-> user.id, accessToken |-> accessToken,
                          refreshToken |-> refreshToken])
               /\ hist' = [hist EXCEPT !.access = @ \cup {accessToken},
                                       !.refresh = @ \cup {refreshToken},
                                       !.login = @ \cup
                                         {[refreshToken |-> refreshToken,
                                           accessToken |-> accessToken]}]
  /\ UNCHANGED <<users, configs, now, slots, budget, sweep>>

\* --------------------------------------------------------------------- Logout
\* authController.logout: removeRefreshToken when the body carries a token
Logout(s) ==
  /\ Free(s)
  /\ \E token \in RefreshInputs :
       /\ configs' = IF token = NoToken THEN configs
                     ELSE configs \ RowsWithToken(REFRESH_TOKENS, token)
       /\ Answer(s, "logout", [status |-> 200, msg |-> "Logout successful",
                               token |-> token])
       /\ hist' = IF token = NoToken THEN hist
                  ELSE [hist EXCEPT !.loggedOut = @ \cup {token}]
  /\ UNCHANGED <<users, now, slots, budget, sweep>>

\* -------------------------------------------------------------------- Refresh
InvalidRefreshToken == "Invalid refresh token"

\* authController.refreshToken: the body check and jwt.verify
RefreshStart(s) ==
  /\ Free(s)
  /\ \E token \in RefreshInputs :
       LET ghost == [token |-> token, verifiedAt |-> now,
                     afterLogout |-> token \in hist.loggedOut,
                     fromLogin |-> \E p \in hist.login : p.refreshToken = token]
       IN /\ IF token = NoToken
             THEN Answer(s, "refresh",
                         [status |-> 400, msg |-> "Refresh token is required"] @@ ghost)
             ELSE IF ~jwtVerify(token, JWT_REFRESH_SECRET, now)
             THEN Answer(s, "refresh",
                         [status |-> 401, msg |-> InvalidRefreshToken] @@ ghost)
             ELSE Begin(s, [op |-> "refresh", pc |-> "findToken",
                            decoded |-> token.payload] @@ ghost)
                  /\ UNCHANGED last
          /\ hist' = IF token.sig = JWT_SECRET /\ now < token.exp
                     THEN [hist EXCEPT !.crossKey = @ \cup {"refresh"}]
                     ELSE hist
  /\ UNCHANGED <<users, configs, now, slots, budget, sweep>>

RefreshResponse(s, status, msg) ==
  [status |-> status, msg |-> msg, token |-> req[s].token,
   verifiedAt |-> req[s].verifiedAt, afterLogout |-> req[s].afterLogout,
   fromLogin |-> req[s].fromLogin]

\* authService.findRefreshToken: configs[0] of the matching rows, its expiry
RefreshFindToken(s) ==
  /\ At(s, "refresh", "findToken")
  /\ LET rows == RowsWithToken(REFRESH_TOKENS, req[s].token)
     IN IF rows = {}
        THEN Respond(s, RefreshResponse(s, 401, InvalidRefreshToken)
                        @@ [cause |-> "absent"])
        ELSE \E row \in rows :
               IF DateLT(row.config_data.expiresAt, now)
               THEN Respond(s, RefreshResponse(s, 401, InvalidRefreshToken)
                               @@ [cause |-> "expired"])
               ELSE Goto(s, [req[s] EXCEPT !.pc = "findUser"] @@
                            [row |-> row.id, checkedAt |-> now,
                             rowExpiresAt |-> row.config_data.expiresAt])
                    /\ UNCHANGED last
  /\ UNCHANGED <<users, configs, now, slots, budget, sweep, hist>>

\* authController.refreshToken: findUserById and the new access token
RefreshFindUserRotates(s) ==
  /\ At(s, "refresh", "findUser")
  /\ LET user == findUserById(req[s].decoded.userId)
         newAccessToken == generateAccessToken(user, now)
     IN /\ user # NoUser
        /\ Respond(s, RefreshResponse(s, 200, "")
                      @@ [accessToken |-> newAccessToken, row |-> req[s].row,
                          checkedAt |-> req[s].checkedAt,
                          rowExpiresAt |-> req[s].rowExpiresAt,
                          replay |-> req[s].token \in hist.refreshed])
        /\ hist' = [hist EXCEPT !.access = @ \cup {newAccessToken},
                                !.refreshed = @ \cup {req[s].token}]
        /\ configs' = configs \ RowsWithToken(REFRESH_TOKENS, req[s].token)
  /\ UNCHANGED <<users, now, slots, budget, sweep>>
RefreshFindUser(s) ==
  /\ At(s, "refresh", "findUser")
  /\ LET user == findUserById(req[s].decoded.userId)
         newAccessToken == generateAccessToken(user, now)
     IN IF user = NoUser
        THEN Respond(s, RefreshResponse(s, 401, "User not found")) /\ hist' = hist
        ELSE /\ Respond(s, RefreshResponse(s, 200, "")
                           @@ [accessToken |-> newAccessToken, row |-> req[s].row,
                               checkedAt |-> req[s].checkedAt,
                               rowExpiresAt |-> req[s].rowExpiresAt,
                               replay |-> req[s].token \in hist.refreshed])
             /\ hist' = [hist EXCEPT !.access = @ \cup {newAccessToken},
                                     !.refreshed = @ \cup {req[s].token}]
  /\ UNCHANGED <<users, configs, now, slots, budget, sweep>>

\* --------------------------------------------- Forgot Password / reset notice
ResetLinkSent ==
  "If an account with that email exists, a password reset link has been sent"

\* findUserByEmail, generatePasswordResetToken, then savePasswordResetToken
\* computes expiresAt and issues findUserById
ResetRequestFindStores(s, op) ==
  /\ Free(s)
  /\ \E e \in Emails :
       /\ findUserByEmail(e) = NoUser
       /\ Answer(s, op, [status |-> 200, msg |-> ResetLinkSent,
                         email |-> e, found |-> FALSE])
       /\ configs' = configs \cup
            {TokenRow(nreq + 1, "e1", PASSWORD_RESET_TOKENS, 0,
                      generatePasswordResetToken(nreq + 1), now + ResetTTL)}
  /\ UNCHANGED <<users, now, slots, budget, sweep, hist>>
ResetRequestFindReveals(s, op) ==
  /\ Free(s)
  /\ \E e \in Emails :
       LET user == findUserByEmail(e)
       IN IF user = NoUser
          THEN /\ Answer(s, op, [status |-> 404, msg |-> "User not found",
                                 email |-> e, found |-> FALSE])
               /\ hist' = [hist EXCEPT !.forgot = @ \cup
                             {[found |-> FALSE, status |-> 404, msg |-> "User not found"]}]
          ELSE /\ Begin(s, [op |-> op, pc |-> "saveFind", user |-> user, email |-> e,
                            resetToken |-> generatePasswordResetToken(nreq + 1),
                            expiresAt |-> now + ResetTTL])
               /\ UNCHANGED <<last, hist>>
  /\ UNCHANGED <<users, configs, now, slots, budget, sweep>>
ResetRequestFind(s, op) ==
  /\ Free(s)
  /\ \E e \in Emails :
       LET user == findUserByEmail(e)
       IN IF user = NoUser
          THEN /\ Answer(s, op, [status |-> 200, msg |-> ResetLinkSent,
                                 email |-> e, found |-> FALSE])
               /\ hist' = [hist EXCEPT !.forgot = @ \cup
                             {[found |-> FALSE, status |-> 200, msg |-> ResetLinkSent]}]
          ELSE /\ Begin(s, [op |-> op, pc |-> "saveFind", user |-> user, email |-> e,
                            resetToken |-> generatePasswordResetToken(nreq + 1),
                            expiresAt |-> now + ResetTTL])
               /\ UNCHANGED <<last, hist>>
  /\ UNCHANGED <<users, configs, now, slots, budget, sweep>>

\* authService.savePasswordResetToken: (await findUserById(userId)).enterprise_id
ResetRequestSaveFind(s, op, errmsg) ==
  /\ At(s, op, "saveFind")
  /\ LET u == findUserById(req[s].user.id)
     IN IF u = NoUser
        THEN Respond(s, [status |-> 500, msg |-> errmsg])
        ELSE Goto(s, [req[s] EXCEPT !.pc = "saveInsert"] @@ [ent |-> u.enterprise_id])
             /\ UNCHANGED last
  /\ UNCHANGED <<users, configs, now, slots, budget, sweep, hist>>

SavedResetRow(s) ==
  TokenRow(req[s].n, req[s].ent, PASSWORD_RESET_TOKENS, req[s].user.id,
           req[s].resetToken, req[s].expiresAt)

\* what the response of a reset request for an existing account records
ResetRequestDone(s) ==
  [email |-> req[s].email, found |-> TRUE, user |-> req[s].user.id,
   resetToken |-> req[s].resetToken]

\* authController.forgotPassword
ForgotPassword(s) == ResetRequestFind(s, "forgotPassword")

ForgotPasswordSaveFind(s) ==
  ResetRequestSaveFind(s, "forgotPassword", "Error processing password reset request")

\* savePasswordResetToken: insert; the email is not sent (the call is commented out)
ForgotPasswordSaveInsert(s) ==
  /\ At(s, "forgotPassword", "saveInsert")
  /\ configs' = configs \cup {SavedResetRow(s)}
  /\ Respond(s, [status |-> 200, msg |-> ResetLinkSent] @@ ResetRequestDone(s))
  /\ hist' = [hist EXCEPT !.reset = @ \cup {req[s].resetToken},
                          !.created = @ \cup {req[s].n},
                          !.forgot = @ \cup
                            {[found |-> TRUE, status |-> 200, msg |-> ResetLinkSent]}]
  /\ UNCHANGED <<users, now, slots, budget, sweep>>

\* notificationController.sendPasswordResetEmail
SendPasswordResetEmail(s) == ResetRequestFind(s, "sendPasswordResetEmail")

SendPasswordResetEmailSaveFind(s) ==
  ResetRequestSaveFind(s, "sendPasswordResetEmail", "Error sending password reset email")

SendPasswordResetEmailSaveInsert(s) ==
  /\ At(s, "sendPasswordResetEmail", "saveInsert")
  /\ configs' = configs \cup {SavedResetRow(s)}
  /\ Goto(s, [req[s] EXCEPT !.pc = "send"])
  /\ hist' = [hist EXCEPT !.reset = @ \cup {req[s].resetToken},
                          !.created = @ \cup {req[s].n}]
  /\ UNCHANGED <<users, now, slots, budget, sweep, last>>

\* emailService.sendPasswordReset(user, {token}): delivers or throws
SendPasswordResetEmailSend(s) ==
  /\ At(s, "sendPasswordResetEmail", "send")
  /\ \E delivered \in BOOLEAN :
       IF delivered
       THEN /\ Respond(s, [status |-> 200, msg |-> ResetLinkSent] @@ ResetRequestDone(s))
            /\ hist' = [hist EXCEPT !.emailed = @ \cup {req[s].resetToken},
                                    !.handed = Append(@, req[s].resetToken),
                                    !.forgot = @ \cup
                                      {[found |-> TRUE, status |-> 200,
                                        msg |-> ResetLinkSent]}]
       ELSE /\ Respond(s, [status |-> 500, msg |-> "Error sending password reset email"]
                          @@ ResetRequestDone(s))
            /\ hist' = [hist EXCEPT !.handed = Append(@, req[s].resetToken)]
  /\ UNCHANGED <<users, configs, now, slots, budget, sweep>>

\* ------------------------------------------------------------- Reset Password
InvalidOrExpiredToken == "Invalid or expired reset token"

\* a reset-token value that generatePasswordResetToken never returned
ForgedResetToken == [hex |-> 0]

\* the values a client can put in the /reset-password/:token path
ResetInputs == hist.emailed \cup {ForgedResetToken}

\* authService.resetPasswordWithToken: the select, configs[0], its expiry, the hash
ResetPassword(s) ==
  /\ Free(s)
  /\ \E token \in ResetInputs, password \in NewPasswords :
       LET rows == RowsWithToken(PASSWORD_RESET_TOKENS, token)
           fail == Answer(s, "resetPassword",
                          [status |-> 400, msg |-> InvalidOrExpiredToken,
                           token |-> token,
                           reused |-> token \in hist.consumed])
       IN IF rows = {}
          THEN fail
          ELSE \E row \in rows :
                 IF DateLT(row.config_data.expiresAt, now)
                 THEN fail
                 ELSE Begin(s, [op |-> "resetPassword", pc |-> "update",
                                token |-> token, row |-> row.id,
                                checkedAt |-> now,
                                rowExpiresAt |-> row.config_data.expiresAt,
                                userId |-> row.config_data.userId,
                                reused |-> token \in hist.consumed,
                                hashedPassword |-> bcryptHash(password, nreq + 1)])
                      /\ UNCHANGED last
  /\ UNCHANGED <<users, configs, now, slots, budget, sweep, hist>>

\* .from('users').update({password_hash}).eq('id', id)
UpdatePasswordHash(id, hash) ==
  [i \in 1..Len(users) |->
     IF i = id THEN [users[i] EXCEPT !.password_hash = hash] ELSE users[i]]

ResetPasswordUpdate(s) ==
  /\ At(s, "resetPassword", "update")
  /\ users' = UpdatePasswordHash(req[s].userId, req[s].hashedPassword)
  /\ Goto(s, [req[s] EXCEPT !.pc = "delete"])
  /\ UNCHANGED <<configs, now, slots, budget, sweep, last, hist>>

\* the used token is removed, then the 200 response
ResetPasswordDelete(s) ==
  /\ At(s, "resetPassword", "delete")
  /\ configs' = configs \ RowsWithToken(PASSWORD_RESET_TOKENS, req[s].token)
  /\ Respond(s, [status |-> 200, msg |-> "Password reset successful",
                 token |-> req[s].token, row |-> req[s].row,
                 checkedAt |-> req[s].checkedAt,
                 rowExpiresAt |-> req[s].rowExpiresAt,
                 userId |-> req[s].userId, reused |-> req[s].reused])
  /\ hist' = [hist EXCEPT !.consumed = @ \cup {req[s].token}]
  /\ UNCHANGED <<users, now, slots, budget, sweep>>

\* -------------------------------------------------------- Request Authenticator
NoHeader == [absent |-> TRUE]
EmptyString == [sig |-> "empty"]
Bearer(token) == [bearer |-> token]

\* req.header('Authorization')?.replace('Bearer ', '')
BearerValue(header) == IF header = NoHeader THEN NoToken ELSE header.bearer

\* !token
Falsy(token) == token = NoToken \/ token = EmptyString

NoTokenProvided == "Access denied. No token provided."
InvalidToken == "Invalid token."

\* middleware/auth.js: the outcome of the middleware for one request
authNoMissingCheck(header, t) ==
  LET token == BearerValue(header)
  IN IF Falsy(token) \/ ~jwtVerify(token, JWT_SECRET, t)
     THEN [next |-> FALSE, status |-> 401, msg |-> InvalidToken]
     ELSE [next |-> TRUE, user |-> token.payload]
authStateful(header, t) ==
  LET token == BearerValue(header)
  IN IF Falsy(token)
     THEN [next |-> FALSE, status |-> 401, msg |-> NoTokenProvided]
     ELSE IF ~jwtVerify(token, JWT_SECRET, t)
             \/ findUserById(token.payload.userId) = NoUser
     THEN [next |-> FALSE, status |-> 401, msg |-> InvalidToken]
     ELSE [next |-> TRUE, user |-> token.payload]
auth(header, t) ==
  LET token == BearerValue(header)
  IN IF Falsy(token)
     THEN [next |-> FALSE, status |-> 401, msg |-> NoTokenProvided]
     ELSE IF ~jwtVerify(token, JWT_SECRET, t)
     THEN [next |-> FALSE, status |-> 401, msg |-> InvalidToken]
     ELSE [next |-> TRUE, user |-> token.payload]

\* the Authorization headers a client can send
Headers ==
  {NoHeader, Bearer(EmptyString), Bearer(Malformed)}
    \cup {Bearer(t) : t \in hist.access \cup hist.refresh}

\* a route  auth, handler : the middleware answers, or the handler starts
Protected(s, op, header, r) ==
  LET a == auth(header, now)
  IN /\ IF ~a.next
        THEN Answer(s, op, [status |-> a.status, msg |-> a.msg, header |-> header,
                            authAt |-> now, handler |-> FALSE])
        ELSE Begin(s, r @@ [op |-> op, user |-> a.user, header |-> header,
                            authAt |-> now])
             /\ UNCHANGED last
     /\ hist' = IF BearerValue(header).sig = JWT_REFRESH_SECRET
                   /\ now < BearerValue(header).exp
                THEN [hist EXCEPT !.crossKey = @ \cup {"auth"}]
                ELSE hist

\* what a response of a protected route records about its request
Authed(s) ==
  [header |-> req[s].header, authAt |-> req[s].authAt, handler |-> TRUE,
   user |-> req[s].user]

\* ------------------------------------------------------------ Change Password
ChangePasswordStart(s) ==
  /\ Free(s)
  /\ \E header \in Headers, cur \in Passwords, new \in NewPasswords :
       Protected(s, "changePassword", header,
                 [pc |-> "select", currentPassword |-> cur, newPassword |-> new])
  /\ UNCHANGED <<users, configs, now, slots, budget, sweep>>

\* authService.changePassword: select password_hash, bcrypt.compare, bcrypt.hash
ChangePasswordSelectNoCompare(s) ==
  /\ At(s, "changePassword", "select")
  /\ Goto(s, [req[s] EXCEPT !.pc = "update"] @@
              [hashedNewPassword |-> bcryptHash(req[s].newPassword, req[s].n)])
  /\ UNCHANGED <<users, configs, now, slots, budget, sweep, hist, last>>
ChangePasswordSelect(s) ==
  /\ At(s, "changePassword", "select")
  /\ LET id == req[s].user.userId
     IN IF id \notin 1..Len(users)
           \/ ~bcryptCompare(req[s].currentPassword, users[id].password_hash)
        THEN Respond(s, Authed(s) @@
                        [status |-> 400, msg |-> "Current password is incorrect"])
        ELSE Goto(s, [req[s] EXCEPT !.pc = "update"] @@
                     [hashedNewPassword |-> bcryptHash(req[s].newPassword, req[s].n)])
             /\ UNCHANGED last
  /\ UNCHANGED <<users, configs, now, slots, budget, sweep, hist>>

ChangePasswordUpdate(s) ==
  /\ At(s, "changePassword", "update")
  /\ users' = UpdatePasswordHash(req[s].user.userId, req[s].hashedNewPassword)
  /\ Respond(s, Authed(s) @@
                [status |-> 200, msg |-> "Password changed successfully"])
  /\ hist' = [hist EXCEPT !.changed = @ \cup
                {[userId |-> req[s].user.userId, old |-> req[s].currentPassword,
                  new |-> req[s].newPassword, hash |-> req[s].hashedNewPassword]}]
  /\ UNCHANGED <<configs, now, slots, budget, sweep>>

\* ------------------------------------------------------------- Delete Account
DeleteAccountStart(s) ==
  /\ Free(s)
  /\ \E header \in Headers :
       Protected(s, "deleteAccount", header, [pc |-> "deactivate"])
  /\ UNCHANGED <<users, configs, now, slots, budget, sweep>>

\* authService.deleteUser: update({is_active: false}).eq('id', userId)
DeleteAccountDeactivate(s) ==
  /\ At(s, "deleteAccount", "deactivate")
  /\ users' = [i \in 1..Len(users) |->
                 IF i = req[s].user.userId
                 THEN [users[i] EXCEPT !.is_active = FALSE] ELSE users[i]]
  /\ Goto(s, [req[s] EXCEPT !.pc = "purge"])
  /\ UNCHANGED <<configs, now, slots, budget, sweep, last, hist>>

\* the rows removeAllUserRefreshTokens deletes
removeAllUserRefreshTokens(userId) ==
  {r \in configs : r.config_type = REFRESH_TOKENS
                   /\ contains(r.config_data, "userId", userId)}

DeleteAccountPurge(s) ==
  /\ At(s, "deleteAccount", "purge")
  /\ configs' = configs \ removeAllUserRefreshTokens(req[s].user.userId)
  /\ Respond(s, Authed(s) @@
                [status |-> 200, msg |-> "Account deleted successfully"])
  /\ hist' = [hist EXCEPT !.deleted = @ \cup {req[s].user.userId}]
  /\ UNCHANGED <<users, now, slots, budget, sweep>>

\* ------------------------------------------------- enterprise configuration
FarFuture == MaxTime + RefreshTTL
ForgedExpiry == {0, FarFuture}

\* the {configType, configData} bodies updateEnterpriseConfig is tried with
ConfigInputs ==
  {[configType |-> LEAD_FIELDS, configData |-> [custom_fields |-> "budget"]],
   [configType |-> "", configData |-> [custom_fields |-> "budget"]]}
  \cup {[configType |-> REFRESH_TOKENS,
         configData |-> [userId |-> t.payload.userId, token |-> t, expiresAt |-> e]] :
          t \in hist.refresh, e \in ForgedExpiry}
  \cup {[configType |-> PASSWORD_RESET_TOKENS,
         configData |-> [userId |-> u, token |-> t, expiresAt |-> e]] :
          u \in 1..Len(users), t \in ResetInputs, e \in ForgedExpiry}

UpdateEnterpriseConfigStart(s) ==
  /\ Free(s)
  /\ \E header \in Headers, id \in Enterprises, body \in ConfigInputs :
       IF auth(header, now).next /\ body.configType = ""
       THEN /\ Answer(s, "updateEnterpriseConfig",
                      [status |-> 400,
                       msg |-> "Config type and config data are required",
                       header |-> header, authAt |-> now, handler |-> TRUE,
                       user |-> auth(header, now).user])
            /\ hist' = hist
       ELSE Protected(s, "updateEnterpriseConfig", header,
                      [pc |-> "upsert", id |-> id, body |-> body])
  /\ UNCHANGED <<users, configs, now, slots, budget, sweep>>

\* .from('enterprise_configs').upsert({...}): no key is given, a row is inserted
UpdateEnterpriseConfigUpsert(s) ==
  /\ At(s, "updateEnterpriseConfig", "upsert")
  /\ LET config == [id |-> req[s].n, enterprise_id |-> req[s].id,
                    config_type |-> req[s].body.configType,
                    config_data |-> req[s].body.configData,
                    is_active |-> TRUE]
     IN /\ configs' = configs \cup {config}
        /\ Respond(s, Authed(s) @@
                      [status |-> 200,
                       msg |-> "Enterprise configuration updated successfully",
                       config |-> config])
  /\ UNCHANGED <<users, now, slots, budget, sweep, hist>>

\* the ?configType= values getEnterpriseConfig is tried with ("" is none)
ConfigTypeQueries == {"", PASSWORD_RESET_TOKENS}

\* is_active of a row: the value the insert gave, else the column default
isActive(r, columnDefault) ==
  IF "is_active" \in DOMAIN r THEN r.is_active ELSE columnDefault

GetEnterpriseConfigStart(s) ==
  /\ Free(s)
  /\ \E header \in Headers, id \in Enterprises, configType \in ConfigTypeQueries :
       Protected(s, "getEnterpriseConfig", header,
                 [pc |-> "select", id |-> id, configType |-> configType])
  /\ UNCHANGED <<users, configs, now, slots, budget, sweep>>

\* .select('*').eq('enterprise_id', id).eq('is_active', true) and, when
\* configType is given, .eq('config_type', configType).  The token rows are
\* inserted without is_active and carry the default of the column, which the
\* schema (not part of the source) sets.
GetEnterpriseConfigSelect(s) ==
  /\ At(s, "getEnterpriseConfig", "select")
  /\ \E columnDefault \in BOOLEAN :
       Respond(s, Authed(s) @@
                  [status |-> 200, msg |-> "", id |-> req[s].id,
                   configs |-> {r \in configs :
                                  /\ r.enterprise_id = req[s].id
                                  /\ isActive(r, columnDefault)
                                  /\ req[s].configType # ""
                                       => r.config_type = req[s].configType}])
  /\ UNCHANGED <<users, configs, now, slots, budget, sweep, hist>>

\* ------------------------------------------------------------ account invite
\* generateTemporaryPassword(): a value no client chose
TempPassword == "tmp"

\* routes: router.post('/account-invite', sendAccountInvite), no middleware;
\* the handler starts with findUserByEmail
SendAccountInvite(s) ==
  /\ Free(s)
  /\ Len(users) < MaxUsers
  /\ \E header \in Headers, in \in RegisterInputs :
       IF findUserByEmail(in.email) # NoUser
       THEN Answer(s, "sendAccountInvite",
                   [status |-> 400, msg |-> "User already exists with this email",
                    email |-> in.email, header |-> header, authAt |-> now,
                    handler |-> TRUE])
       ELSE Begin(s, [op |-> "sendAccountInvite", pc |-> "create",
                      email |-> in.email, enterpriseId |-> in.enterpriseId,
                      header |-> header, authAt |-> now])
            /\ UNCHANGED last
  /\ UNCHANGED <<users, configs, now, slots, budget, sweep, hist>>

\* authService.createUser with the temporary password
SendAccountInviteCreate(s) ==
  /\ At(s, "sendAccountInvite", "create")
  /\ Len(users) < MaxUsers
  /\ LET user == [id |-> Len(users) + 1,
                  enterprise_id |-> req[s].enterpriseId,
                  email |-> toLowerCase(req[s].email),
                  password_hash |-> bcryptHash(TempPassword, req[s].n),
                  role |-> DefaultRole,
                  is_active |-> TRUE]
     IN /\ users' = Append(users, user)
        /\ Goto(s, [req[s] EXCEPT !.pc = "send"] @@ [user |-> user])
  /\ UNCHANGED <<configs, now, slots, budget, sweep, last, hist>>

\* emailService.sendAccountInvite, createNotificationRecord, the response
SendAccountInviteSend(s) ==
  /\ At(s, "sendAccountInvite", "send")
  /\ Respond(s, [status |-> 200, msg |-> "Account invitation sent successfully",
                 user |-> req[s].user.id, email |-> req[s].user.email,
                 header |-> req[s].header, authAt |-> req[s].authAt,
                 handler |-> TRUE])
  /\ UNCHANGED <<users, configs, now, slots, budget, sweep, hist>>

\* ------------------------------------------------------------ team management
\* an enterprise id no enterprise has
UnknownEnterprise == "e0"

NoEnterprise == [id |-> ""]

\* .from('enterprises') ... .eq('id', id).single()
findEnterpriseById(id) == IF id \in Enterprises THEN [id |-> id] ELSE NoEnterprise

\* routes: router.get('/:enterpriseId/users', getEnterpriseUsers), no
\* middleware; the handler starts with findEnterpriseById
GetEnterpriseUsers(s) ==
  /\ Free(s)
  /\ \E header \in Headers, enterpriseId \in Enterprises \cup {UnknownEnterprise} :
       IF findEnterpriseById(enterpriseId) = NoEnterprise
       THEN Answer(s, "getEnterpriseUsers",
                   [status |-> 404, msg |-> "Enterprise not found",
                    header |-> header, authAt |-> now, handler |-> TRUE])
       ELSE Begin(s, [op |-> "getEnterpriseUsers", pc |-> "select",
                      enterpriseId |-> enterpriseId,
                      header |-> header, authAt |-> now])
            /\ UNCHANGED last
  /\ UNCHANGED <<users, configs, now, slots, budget, sweep, hist>>

\* .from('users') ... .eq('enterprise_id', enterpriseId).eq('is_active', true)
GetEnterpriseUsersSelect(s) ==
  /\ At(s, "getEnterpriseUsers", "select")
  /\ Respond(s, [status |-> 200, msg |-> "",
                 users |-> {[id |-> users[i].id, email |-> users[i].email] :
                              i \in {j \in 1..Len(users) :
                                       /\ users[j].enterprise_id = req[s].enterpriseId
                                       /\ users[j].is_active}},
                 header |-> req[s].header, authAt |-> req[s].authAt,
                 handler |-> TRUE])
  /\ UNCHANGED <<users, configs, now, slots, budget, sweep, hist>>

\* ------------------------------------------------------------- update profile
UpdateProfileStart(s) ==
  /\ Free(s)
  /\ \E header \in Headers, email \in Emails :
       Protected(s, "updateProfile", header, [pc |-> "update", email |-> email])
  /\ UNCHANGED <<users, configs, now, slots, budget, sweep>>

\* authService.updateUser: update({email: email.toLowerCase()}).eq('id', userId).
\* The handler compares the email with no other row.  Whether the users table
\* itself refuses a second row with the email is set by the schema, which is
\* not part of the source: either; on a refusal updateUser returns null and
\* updatedUser.id throws.
UpdateProfileUpdate(s) ==
  /\ At(s, "updateProfile", "update")
  /\ LET id == req[s].user.userId
         email == toLowerCase(req[s].email)
     IN \E uniqueEmail \in BOOLEAN :
          IF \/ id \notin 1..Len(users)
             \/ /\ uniqueEmail
                /\ \E j \in 1..Len(users) : j # id /\ users[j].email = email
          THEN /\ Respond(s, Authed(s) @@
                             [status |-> 500, msg |-> "Error updating profile"])
               /\ users' = users
          ELSE /\ users' = [users EXCEPT ![id].email = email]
               /\ Respond(s, Authed(s) @@
                             [status |-> 200, msg |-> "Profile updated successfully",
                              email |-> email])
  /\ UNCHANGED <<configs, now, slots, budget, sweep, hist>>

\* --------------------------------------------------------------- expiry sweep
\* authService.cleanupExpiredTokens: now is read once, then two deletes
CleanupStart ==
  /\ sweep.pc \in {"idle", "done"}
  /\ nreq < budget
  /\ nreq' = nreq + 1
  /\ sweep' = [pc |-> "refresh", T |-> now,
               stored |-> configs,   \* the rows stored when the sweep began
               removed |-> {},       \* the rows its deletes removed
               final |-> {}]         \* the rows stored when it ended
  /\ UNCHANGED <<users, configs, now, slots, budget, req, last, hist>>

CleanupRefreshTokens ==
  /\ sweep.pc = "refresh"
  /\ configs' = configs \ ExpiredRows(REFRESH_TOKENS, sweep.T)
  /\ sweep' = [sweep EXCEPT !.pc = "reset",
                            !.removed = @ \cup ExpiredRows(REFRESH_TOKENS, sweep.T)]
  /\ UNCHANGED <<users, now, slots, budget, req, nreq, last, hist>>

CleanupResetTokens ==
  /\ sweep.pc = "reset"
  /\ configs' = configs \ ExpiredRows(PASSWORD_RESET_TOKENS, sweep.T)
  /\ sweep' = [sweep EXCEPT !.pc = "done",
                            !.removed = @ \cup ExpiredRows(PASSWORD_RESET_TOKENS, sweep.T),
                            !.final = configs']
  /\ UNCHANGED <<users, now, slots, budget, req, nreq, last, hist>>

\* ------------------------------------------------------------- storage faults
\* A database call that fails resolves to {data: null, error}; the client does
\* not throw.  Each action below is the step of a handler whose database call
\* failed, followed by the code that runs on that result.

\* login: findUserByEmail returns null on error
LoginFault(s) ==
  /\ Free(s)
  /\ Answer(s, "login", [status |-> 401, msg |-> LoginUserNotFound, fault |-> TRUE])
  /\ UNCHANGED <<users, configs, now, slots, budget, sweep, hist>>

\* logout: the result of the delete in removeRefreshToken is not looked at
LogoutFault(s) ==
  /\ Free(s)
  /\ \E token \in RefreshInputs \ {NoToken} :
       Answer(s, "logout", [status |-> 200, msg |-> "Logout successful",
                            token |-> token, fault |-> TRUE])
  /\ UNCHANGED <<users, configs, now, slots, budget, sweep, hist>>

\* refreshToken: findRefreshToken returns null on error
RefreshFindTokenFault(s) ==
  /\ At(s, "refresh", "findToken")
  /\ Respond(s, RefreshResponse(s, 401, InvalidRefreshToken)
                @@ [cause |-> "fault", fault |-> TRUE])
  /\ UNCHANGED <<users, configs, now, slots, budget, sweep, hist>>

\* refreshToken: findUserById returns null on error
RefreshFindUserFault(s) ==
  /\ At(s, "refresh", "findUser")
  /\ Respond(s, RefreshResponse(s, 401, "User not found")
                @@ [cause |-> "fault", fault |-> TRUE])
  /\ UNCHANGED <<users, configs, now, slots, budget, sweep, hist>>

\* resetPasswordWithToken: the select fails, false is returned
ResetPasswordFault(s) ==
  /\ Free(s)
  /\ \E token \in ResetInputs :
       Answer(s, "resetPassword",
              [status |-> 400, msg |-> InvalidOrExpiredToken, token |-> token,
               reused |-> token \in hist.consumed, fault |-> TRUE])
  /\ UNCHANGED <<users, configs, now, slots, budget, sweep, hist>>

\* resetPasswordWithToken: the update fails, false is returned
ResetPasswordUpdateFault(s) ==
  /\ At(s, "resetPassword", "update")
  /\ Respond(s, [status |-> 400, msg |-> InvalidOrExpiredToken,
                 token |-> req[s].token, reused |-> req[s].reused, fault |-> TRUE])
  /\ UNCHANGED <<users, configs, now, slots, budget, sweep, hist>>

\* resetPasswordWithToken: the result of the delete is not looked at
ResetPasswordDeleteFault(s) ==
  /\ At(s, "resetPassword", "delete")
  /\ Respond(s, [status |-> 200, msg |-> "Password reset successful",
                 token |-> req[s].token, row |-> req[s].row,
                 checkedAt |-> req[s].checkedAt,
                 rowExpiresAt |-> req[s].rowExpiresAt,
                 userId |-> req[s].userId, reused |-> req[s].reused,
                 fault |-> TRUE])
  /\ hist' = [hist EXCEPT !.consumed = @ \cup {req[s].token}]
  /\ UNCHANGED <<users, configs, now, slots, budget, sweep>>

\* authService.changePassword: the select fails, false is returned
ChangePasswordSelectFault(s) ==
  /\ At(s, "changePassword", "select")
  /\ Respond(s, Authed(s) @@
                [status |-> 400, msg |-> "Current password is incorrect",
                 fault |-> TRUE])
  /\ UNCHANGED <<users, configs, now, slots, budget, sweep, hist>>

\* authService.changePassword: the update fails, false is returned
ChangePasswordUpdateFault(s) ==
  /\ At(s, "changePassword", "update")
  /\ Respond(s, Authed(s) @@
                [status |-> 400, msg |-> "Current password is incorrect",
                 fault |-> TRUE])
  /\ UNCHANGED <<users, configs, now, slots, budget, sweep, hist>>

\* deleteUser: the update fails, false is returned and deleteAccount ignores it
DeleteAccountDeactivateFault(s) ==
  /\ At(s, "deleteAccount", "deactivate")
  /\ Respond(s, Authed(s) @@
                [status |-> 200, msg |-> "Account deleted successfully",
                 fault |-> TRUE])
  /\ UNCHANGED <<users, configs, now, slots, budget, sweep, hist>>

\* removeAllUserRefreshTokens: the result of the delete is not looked at
DeleteAccountPurgeFault(s) ==
  /\ At(s, "deleteAccount", "purge")
  /\ Respond(s, Authed(s) @@
                [status |-> 200, msg |-> "Account deleted successfully",
                 fault |-> TRUE])
  /\ UNCHANGED <<users, configs, now, slots, budget, sweep, hist>>

\* ------------------------------------------------------------------ the clock
Tick ==
  /\ now < MaxTime
  /\ now' = now + 1
  /\ UNCHANGED <<users, configs, slots, req, nreq, budget, sweep, last, hist>>

\* ------------------------------------------------------------ specification
InitHist ==
  [access |-> {},      \* access tokens returned in a response
   refresh |-> {},     \* refresh tokens returned in a response
   login |-> {},       \* the token pairs returned by Login
   loggedOut |-> {},   \* refresh tokens whose Logout has completed
   loginFail |-> {},   \* the error bodies Login has returned, with their cause
   reset |-> {},       \* reset tokens generated
   emailed |-> {},     \* reset tokens handed to the email service
   consumed |-> {},    \* reset tokens a successful Reset Password has used
   created |-> {},     \* ids of the rows saveRefreshToken / savePasswordResetToken inserted
   crossKey |-> {},    \* who was shown an unexpired token signed with the other secret
   handed |-> <<>>,    \* the reset tokens passed to emailService.sendPasswordReset, in order
   forgot |-> {},      \* the bodies a reset request returned for no account / notice sent
   refreshed |-> {},   \* refresh tokens a Refresh has succeeded with
   changed |-> {},     \* the password changes Change Password has made
   deleted |-> {}]     \* ids of the users whose Delete Account has completed

\* the state after deployment: empty tables, no request in flight
InitWith(b) ==
  /\ users = <<>>
  /\ configs = {}
  /\ now = 0
  /\ slots = {1}
  /\ req = [s \in slots |-> Idle]
  /\ nreq = 0
  /\ budget = b
  /\ sweep = [pc |-> "idle"]
  /\ last = NoResponse
  /\ hist = InitHist

\* the state after deployment, the server taking two requests at a time
InitConcurrent(b) ==
  /\ users = <<>>
  /\ configs = {}
  /\ now = 0
  /\ slots = {1, 2}
  /\ req = [s \in slots |-> Idle]
  /\ nreq = 0
  /\ budget = b
  /\ sweep = [pc |-> "idle"]
  /\ last = NoResponse
  /\ hist = InitHist

RegisterSteps ==
  \E s \in slots :
    \/ Register(s)
    \/ RegisterCreate(s)
    \/ RegisterSaveFind(s)
    \/ RegisterSaveInsert(s)

RefreshSteps ==
  \E s \in slots :
    \/ RefreshStart(s)
    \/ RefreshFindToken(s)
    \/ RefreshFindUser(s)

ForgotPasswordSteps ==
  \E s \in slots :
    \/ ForgotPassword(s)
    \/ ForgotPasswordSaveFind(s)
    \/ ForgotPasswordSaveInsert(s)

SendPasswordResetEmailSteps ==
  \E s \in slots :
    \/ SendPasswordResetEmail(s)
    \/ SendPasswordResetEmailSaveFind(s)
    \/ SendPasswordResetEmailSaveInsert(s)
    \/ SendPasswordResetEmailSend(s)

ResetPasswordSteps ==
  \E s \in slots :
    \/ ResetPassword(s)
    \/ ResetPasswordUpdate(s)
    \/ ResetPasswordDelete(s)

ChangePasswordSteps ==
  \E s \in slots :
    \/ ChangePasswordStart(s)
    \/ ChangePasswordSelect(s)
    \/ ChangePasswordUpdate(s)

DeleteAccountSteps ==
  \E s \in slots :
    \/ DeleteAccountStart(s)
    \/ DeleteAccountDeactivate(s)
    \/ DeleteAccountPurge(s)

UpdateEnterpriseConfigSteps ==
  \E s \in slots :
    \/ UpdateEnterpriseConfigStart(s)
    \/ UpdateEnterpriseConfigUpsert(s)

GetEnterpriseConfigSteps ==
  \E s \in slots :
    \/ GetEnterpriseConfigStart(s)
    \/ GetEnterpriseConfigSelect(s)

SendAccountInviteSteps ==
  \E s \in slots :
    \/ SendAccountInvite(s)
    \/ SendAccountInviteCreate(s)
    \/ SendAccountInviteSend(s)

GetEnterpriseUsersSteps ==
  \E s \in slots :
    \/ GetEnterpriseUsers(s)
    \/ GetEnterpriseUsersSelect(s)

UpdateProfileSteps ==
  \E s \in slots :
    \/ UpdateProfileStart(s)
    \/ UpdateProfileUpdate(s)

CleanupSteps ==
  \/ CleanupStart
  \/ CleanupRefreshTokens
  \/ CleanupResetTokens

StorageFaultSteps ==
  \E s \in slots :
    \/ LoginFault(s)
    \/ LogoutFault(s)
    \/ RefreshFindTokenFault(s)
    \/ RefreshFindUserFault(s)
    \/ ResetPasswordFault(s)
    \/ ResetPasswordUpdateFault(s)
    \/ ResetPasswordDeleteFault(s)
    \/ ChangePasswordSelectFault(s)
    \/ ChangePasswordUpdateFault(s)
    \/ DeleteAccountDeactivateFault(s)
    \/ DeleteAccountPurgeFault(s)

\* The whole system, its database available.
Init == InitWith(MaxReqs)

Next ==
  \/ Tick
  \/ RegisterSteps
  \/ \E s \in slots : Login(s)
  \/ \E s \in slots : Logout(s)
  \/ RefreshSteps
  \/ ForgotPasswordSteps
  \/ SendPasswordResetEmailSteps
  \/ ResetPasswordSteps
  \/ ChangePasswordSteps
  \/ DeleteAccountSteps
  \/ UpdateEnterpriseConfigSteps
  \/ CleanupSteps

Spec == Init /\ [][Next]_vars

\* The session endpoints and the configuration update, run for longer.
InitSession == InitWith(MaxSessionReqs)

NextSession ==
  \/ Tick
  \/ RegisterSteps
  \/ \E s \in slots : Login(s)
  \/ \E s \in slots : Logout(s)
  \/ RefreshSteps
  \/ UpdateEnterpriseConfigSteps

SpecSession == InitSession /\ [][NextSession]_vars

\* The password-reset endpoints and the configuration update, run for longer
\* within one time unit.
InitReset == InitWith(MaxResetReqs)

NextReset ==
  \/ RegisterSteps
  \/ SendPasswordResetEmailSteps
  \/ ResetPasswordSteps
  \/ UpdateEnterpriseConfigSteps

SpecReset == InitReset /\ [][NextReset]_vars

\* Registration, a Forgot Password request and account deletion on their own.
InitAccount == InitWith(MaxReqs)

NextAccount ==
  \/ Tick
  \/ RegisterSteps
  \/ ForgotPasswordSteps
  \/ DeleteAccountSteps

SpecAccount == InitAccount /\ [][NextAccount]_vars

\* The enterprise configuration endpoints next to registration and a Forgot
\* Password request, within one time unit.
InitTenant == InitWith(MaxReqs)

NextTenant ==
  \/ RegisterSteps
  \/ ForgotPasswordSteps
  \/ GetEnterpriseConfigSteps
  \/ UpdateEnterpriseConfigSteps

SpecTenant == InitTenant /\ [][NextTenant]_vars

\* The User Directory under the requests that add or rename its entries.
InitDirectory == InitWith(MaxReqs)

NextDirectory ==
  \/ RegisterSteps
  \/ SendAccountInviteSteps
  \/ GetEnterpriseUsersSteps
  \/ UpdateProfileSteps

SpecDirectory == InitDirectory /\ [][NextDirectory]_vars

\* Registration whose refresh-token insert can fail, and Login.
InitRegister == InitWith(MaxSessionReqs)

NextRegister ==
  \/ RegisterSteps
  \/ \E s \in slots : RegisterSaveInsertFault(s)
  \/ \E s \in slots : Login(s)

SpecRegister == InitRegister /\ [][NextRegister]_vars

\* Refresh and Logout served concurrently, within one time unit.
InitRefreshRace == InitConcurrent(MaxReqs)

NextRefreshRace ==
  \/ RegisterSteps
  \/ \E s \in slots : Logout(s)
  \/ RefreshSteps

SpecRefreshRace == InitRefreshRace /\ [][NextRefreshRace]_vars

\* Reset Password requests served concurrently, within one time unit.
InitResetRace == InitConcurrent(MaxSessionReqs)

NextResetRace ==
  \/ RegisterSteps
  \/ SendPasswordResetEmailSteps
  \/ ResetPasswordSteps

SpecResetRace == InitResetRace /\ [][NextResetRace]_vars

\* Delete Account served concurrently with Register, Login and Refresh,
\* within one time unit.
InitDeleteRace == InitConcurrent(MaxSessionReqs)

NextDeleteRace ==
  \/ RegisterSteps
  \/ \E s \in slots : Login(s)
  \/ DeleteAccountSteps
  \/ RefreshSteps

SpecDeleteRace == InitDeleteRace /\ [][NextDeleteRace]_vars

\* The Session Authority within one time unit, with a database whose calls
\* can fail.
InitFault == InitWith(MaxReqs)

NextFault ==
  \/ RegisterSteps
  \/ \E s \in slots : Login(s)
  \/ \E s \in slots : Logout(s)
  \/ RefreshSteps
  \/ SendPasswordResetEmailSteps
  \/ ResetPasswordSteps
  \/ ChangePasswordSteps
  \/ DeleteAccountSteps
  \/ StorageFaultSteps

SpecFault == InitFault /\ [][NextFault]_vars

\* ===================================================================== claims
ProtectedOps == {"changePassword", "deleteAccount", "updateEnterpriseConfig"}
TokenTypes == {REFRESH_TOKENS, PASSWORD_RESET_TOKENS}

\* C1: a refresh token deleted by Logout is never again accepted by Refresh:
\* no Refresh call made with it after the Logout has completed succeeds.
C1_LoggedOutTokenRejected ==
  (last.op = "refresh" /\ last.afterLogout) => last.status # 200

\* C2: a password-reset token is single-use: after a Reset Password call with
\* it has succeeded, every later Reset Password call with the same value fails
\* with InvalidOrExpiredToken and changes no password.
C2_ResetTokenSingleUse ==
  /\ \A s \in slots : req[s].op = "resetPassword" => ~req[s].reused
  /\ (last.op = "resetPassword" /\ last.reused)
       => (last.status = 400 /\ last.msg = InvalidOrExpiredToken)

\* C3: a refresh token returned by a successful Login, presented unexpired,
\* before any Logout of it and before deletion of the account, makes Refresh
\* succeed with an access token carrying the principal of the Login.
C3_LoginTokenHonoured ==
  \A p \in hist.login :
    ( /\ last.op = "refresh"
      /\ last.token = p.refreshToken
      /\ last.verifiedAt < last.token.exp
      /\ last.token \notin hist.loggedOut
      /\ users[last.token.payload.userId].is_active )
    => ( /\ last.status = 200
         /\ last.accessToken.payload.userId = p.accessToken.payload.userId
         /\ last.accessToken.payload.enterpriseId = p.accessToken.payload.enterpriseId
         /\ last.accessToken.payload.role = p.accessToken.payload.role )

\* C4: two successful Logins of one user yield two distinct refresh tokens that
\* Refresh both accepts: a Refresh with either of them, unexpired and not itself
\* logged out, succeeds whatever happened to the other one.
C4_BothLoginTokensHonoured ==
  \A p, q \in hist.login :
    ( /\ p.refreshToken # q.refreshToken
      /\ p.refreshToken.payload.userId = q.refreshToken.payload.userId
      /\ last.op = "refresh"
      /\ last.token = p.refreshToken
      /\ last.verifiedAt < last.token.exp
      /\ last.token \notin hist.loggedOut
      /\ users[last.token.payload.userId].is_active )
    => last.status = 200

\* C5: Login answers a failed directory lookup and a failed password check with
\* the same status and the same body.
C5_SameInvalidCredentials ==
  \A f, g \in hist.loginFail : f.status = g.status /\ f.msg = g.msg

\* C6: key-scope isolation: the Request Authenticator never accepts a token
\* signed with the refresh secret, Refresh never accepts a token signed with the
\* access secret.
C6_KeyScopeIsolation ==
  /\ \A s \in slots :
       /\ req[s].op \in ProtectedOps =>
            BearerValue(req[s].header).sig # JWT_REFRESH_SECRET
       /\ req[s].op = "refresh" => req[s].token.sig # JWT_SECRET
  /\ (last.op \in ProtectedOps /\ BearerValue(last.header).sig = JWT_REFRESH_SECRET)
       => (last.status = 401 /\ ~last.handler)
  /\ (last.op = "refresh" /\ last.token.sig = JWT_SECRET) => last.status = 401

\* both directions have been tried with a well-formed, unexpired token, the
\* last one being an access token given to Refresh
C6_Witness ==
  /\ hist.crossKey = {"auth", "refresh"}
  /\ last.op = "refresh"
  /\ last.token.sig = JWT_SECRET
  /\ last.verifiedAt < last.token.exp
  /\ last.status = 401

C8_DeleteAccountPurgesAll ==
  [][\A s \in slots :
       (At(s, "deleteAccount", "purge") /\ req'[s] = Idle) =>
         /\ Len(users') = Len(users)
         /\ ~users'[req[s].user.userId].is_active
         /\ \A r \in configs' :
              r.config_type \in TokenTypes
                => ~contains(r.config_data, "userId", req[s].user.userId)]_vars

\* a row that Refresh or Reset Password would honour now
Honoured(r) ==
  /\ r.config_type \in TokenTypes
  /\ "token" \in DOMAIN r.config_data
  /\ ~DateLT(r.config_data.expiresAt, now)
  /\ r.config_type = REFRESH_TOKENS =>
       /\ jwtVerify(r.config_data.token, JWT_REFRESH_SECRET, now)
       /\ findUserById(r.config_data.token.payload.userId) # NoUser

\* C9: every record of the token store that Refresh or Reset Password would
\* honour was created by Register or Login (saveRefreshToken) or by a Forgot
\* Password request (savePasswordResetToken).
C9_OnlySessionAuthorityCreates ==
  \A r \in configs : Honoured(r) => r.id \in hist.created

\* the Request Authenticator's verdict on (header, t), written out
Verifies(header, t) ==
  /\ BearerValue(header).sig = JWT_SECRET
  /\ t < BearerValue(header).exp

\* C10: a protected handler runs only for a bearer value that verifies under
\* the access secret and is unexpired, and then with the decoded principal;
\* an absent bearer value is answered MissingToken, a failed verification
\* InvalidToken, and in both cases the handler does not run.
C10_AuthenticatorGate ==
  /\ \A s \in slots :
       req[s].op \in ProtectedOps =>
         /\ Verifies(req[s].header, req[s].authAt)
         /\ req[s].user = BearerValue(req[s].header).payload
  /\ last.op \in ProtectedOps =>
       /\ Falsy(BearerValue(last.header)) =>
            (last.status = 401 /\ last.msg = NoTokenProvided /\ ~last.handler)
       /\ (~Falsy(BearerValue(last.header)) /\ ~Verifies(last.header, last.authAt)) =>
            (last.status = 401 /\ last.msg = InvalidToken /\ ~last.handler)
       /\ last.handler =>
            /\ Verifies(last.header, last.authAt)
            /\ last.user = BearerValue(last.header).payload

\* a protected handler has run to its end for a verified bearer token
C10_Witness ==
  /\ last.op \in ProtectedOps
  /\ last.handler
  /\ last.status = 200
  /\ last.user = BearerValue(last.header).payload

\* C11: the Request Authenticator accepts every correctly signed, unexpired
\* access token whatever the token store and the directory hold: a token that
\* was issued stays accepted until its expiry, also after Logout, Delete
\* Account, Reset Password, Change Password or a sweep.
C11_AccessTokenStateless ==
  /\ \A token \in hist.access :
       now < token.exp => auth(Bearer(token), now).next
  /\ ( /\ last.op \in ProtectedOps
       /\ BearerValue(last.header) \in hist.access
       /\ last.authAt < BearerValue(last.header).exp )
     => last.handler

\* a protected handler other than Delete Account has run for the access token
\* of a user whose account is deleted and who has no refresh token left
C11_Witness ==
  /\ last.op \in ProtectedOps \ {"deleteAccount"}
  /\ last.handler
  /\ ~users[last.user.userId].is_active
  /\ removeAllUserRefreshTokens(last.user.userId) = {}

\* C12: the access token in the response of a successful Register is accepted
\* by the Request Authenticator from its issue to its expiry and decodes to the
\* userId, enterpriseId and role of the directory entry that Register created.
C12_RegisterAccessTokenAccepted ==
  (last.op = "register" /\ last.status = 201) =>
    /\ \A t \in last.accessToken.iat .. (last.accessToken.exp - 1) :
         /\ auth(Bearer(last.accessToken), t).next
         /\ auth(Bearer(last.accessToken), t).user.userId = users[last.user].id
         /\ auth(Bearer(last.accessToken), t).user.enterpriseId
              = users[last.user].enterprise_id
         /\ auth(Bearer(last.accessToken), t).user.role = users[last.user].role
    /\ last.accessToken.iat < last.accessToken.exp

\* the second user, of the second enterprise, has been registered
C12_Witness ==
  /\ last.op = "register"
  /\ last.status = 201
  /\ last.user = 2
  /\ last.accessToken.payload.enterpriseId = "e2"

\* C13: the steps of a Register add one directory row (createUser) and one
\* token-store row (saveRefreshToken): a refresh_tokens row that carries the
\* refresh token of the response and the id of the new user; no other row of
\* the directory or the token store is added, changed or removed by them.
C13_RegisterEffect ==
  [][\A s \in slots :
       /\ (req[s] = Idle /\ req'[s] # Idle /\ req'[s].op = "register")
            => (users' = users /\ configs' = configs)
       /\ (At(s, "register", "create") /\ req'[s] # req[s])
            => /\ Len(users') = Len(users) + 1
               /\ SubSeq(users', 1, Len(users)) = users
               /\ users'[Len(users')].id = Len(users')
               /\ configs' = configs
       /\ (At(s, "register", "saveFind") /\ req'[s] # req[s])
            => (users' = users /\ configs' = configs)
       /\ (At(s, "register", "saveInsert") /\ req'[s] # req[s])
            => /\ users' = users
               /\ last'.status = 201
               /\ configs \subseteq configs'
               /\ Cardinality(configs' \ configs) = 1
               /\ \A r \in configs' \ configs :
                    /\ r.config_type = REFRESH_TOKENS
                    /\ r.config_data.token = last'.refreshToken
                    /\ r.config_data.userId = last'.user
                    /\ last'.user = Len(users)
                    /\ r.enterprise_id = users[last'.user].enterprise_id]_vars

\* a Register has completed while the store already held other rows, and the
\* store holds exactly one more row, the one of the returned refresh token
C13_Witness ==
  /\ last.op = "register"
  /\ last.status = 201
  /\ Len(users) = 2
  /\ Cardinality(configs) >= 2
  /\ Cardinality(RowsWithToken(REFRESH_TOKENS, last.refreshToken)) = 1

\* C14: a Register whose lookup by email finds a user is answered 400 'User
\* already exists with this email' without tokens, and changes neither the
\* directory nor the token store.
C14_DuplicateUserRejected ==
  [][\A s \in slots :
       ( /\ req[s] = Idle
         /\ nreq' = nreq + 1
         /\ \/ (req'[s] # Idle /\ req'[s].op = "register")
            \/ (last'.n = nreq' /\ last'.op = "register") )
       => LET email == IF req'[s] # Idle THEN req'[s].email ELSE last'.email
          IN findUserByEmail(email) # NoUser =>
               /\ req'[s] = Idle
               /\ last'.status = 400
               /\ last'.msg = "User already exists with this email"
               /\ "accessToken" \notin DOMAIN last'
               /\ "refreshToken" \notin DOMAIN last'
               /\ users' = users
               /\ configs' = configs
               /\ hist'.access = hist.access
               /\ hist'.refresh = hist.refresh]_vars

\* a Register for the email of an existing user, in another case, was refused
C14_Witness ==
  /\ last.op = "register"
  /\ last.status = 400
  /\ findUserByEmail(last.email) # NoUser
  /\ last.email # findUserByEmail(last.email).email

ForgotOps == {"forgotPassword", "sendPasswordResetEmail"}

\* C15: a reset request (forgotPassword, sendPasswordResetEmail) for an email
\* under which the lookup finds no account is answered at once with the 200
\* 'If an account with that email exists ...' response; no row of the token
\* store or of the directory is created, changed or deleted and the email
\* service is not called.
C15_ForgotNoAccountNoEffect ==
  [][\A s \in slots :
       ( /\ req[s] = Idle
         /\ nreq' = nreq + 1
         /\ \/ (req'[s] # Idle /\ req'[s].op \in ForgotOps)
            \/ (last'.n = nreq' /\ last'.op \in ForgotOps) )
       => LET email == IF req'[s] # Idle THEN req'[s].email ELSE last'.email
          IN findUserByEmail(email) = NoUser =>
               /\ req'[s] = Idle
               /\ last'.status = 200
               /\ last'.msg = ResetLinkSent
               /\ users' = users
               /\ configs' = configs
               /\ hist'.handed = hist.handed
               /\ hist'.reset = hist.reset]_vars

\* a reset request for an email without account has been answered while the
\* directory and the token store were not empty
C15_Witness ==
  /\ last.op \in ForgotOps
  /\ last.status = 200
  /\ ~last.found
  /\ Len(users) > 0
  /\ configs # {}

\* C16: a reset request for the email of an existing account inserts exactly
\* one row, a password_reset_tokens row with a new token bound to that user,
\* and when it completes that token has been passed to the email service
\* exactly once.
C16_ForgotPersistsAndHandsOff ==
  [][\A s \in slots :
       /\ (req[s].op \in ForgotOps /\ req[s].pc = "saveInsert" /\ req'[s] # req[s])
            => /\ RowsWithToken(PASSWORD_RESET_TOKENS, req[s].resetToken) = {}
               /\ configs \subseteq configs'
               /\ Cardinality(configs' \ configs) = 1
               /\ \A r \in configs' \ configs :
                    /\ r.config_type = PASSWORD_RESET_TOKENS
                    /\ r.config_data.token = req[s].resetToken
                    /\ r.config_data.userId = req[s].user.id
       /\ ( /\ req[s].op \in ForgotOps
            /\ req'[s] = Idle
            /\ "found" \in DOMAIN last'
            /\ last'.found )
            => Cardinality({i \in DOMAIN hist'.handed :
                              hist'.handed[i] = last'.resetToken}) = 1]_vars

RefreshStep(s) ==
  \/ (req[s].op = "refresh" /\ req'[s] # req[s])
  \/ /\ req[s] = Idle
     /\ nreq' = nreq + 1
     /\ \/ (req'[s] # Idle /\ req'[s].op = "refresh")
        \/ (last'.n = nreq' /\ last'.op = "refresh")

C19_ExpiredNeverHonoured ==
  /\ [](\A s \in slots :
          (At(s, "refresh", "findUser") \/ req[s].op = "resetPassword")
            => ~(req[s].rowExpiresAt < req[s].checkedAt))
  /\ []((last.op \in {"refresh", "resetPassword"} /\ last.status = 200)
          => ~(last.rowExpiresAt < last.checkedAt))
  /\ [][\A s \in slots :
          /\ ( /\ At(s, "refresh", "findToken")
               /\ req'[s] # req[s]
               /\ \A r \in RowsWithToken(REFRESH_TOKENS, req[s].token) :
                    r.config_data.expiresAt < now )
             => /\ req'[s] = Idle
                /\ last'.status = 401
                /\ last'.msg = InvalidRefreshToken
                /\ configs' = configs
                /\ users' = users
          /\ ( /\ req[s] = Idle
               /\ nreq' = nreq + 1
               /\ \/ (req'[s] # Idle /\ req'[s].op = "resetPassword")
                  \/ (last'.n = nreq' /\ last'.op = "resetPassword") )
             => LET token == IF req'[s] # Idle THEN req'[s].token ELSE last'.token
                IN (\A r \in RowsWithToken(PASSWORD_RESET_TOKENS, token) :
                      r.config_data.expiresAt < now)
                   => /\ req'[s] = Idle
                      /\ last'.status = 400
                      /\ last'.msg = InvalidOrExpiredToken
                      /\ configs' = configs
                      /\ users' = users]_vars

\* Reset Password has refused a token that was delivered by email and whose
\* record, now expired, is still stored
C19_Witness ==
  /\ last.op = "resetPassword"
  /\ last.status = 400
  /\ last.token \in hist.emailed
  /\ \E r \in RowsWithToken(PASSWORD_RESET_TOKENS, last.token) :
       r.id \in hist.created /\ r.config_data.expiresAt < now

\* C20: a request of Login, Refresh, Logout, Reset Password, Change Password
\* or Delete Account during which a database call failed is answered with a
\* 5xx status.
C20_StorageFaultIs5xx ==
  ("fault" \in DOMAIN last /\ last.fault) => last.status >= 500

\* C21: Change Password answers 400 'Current password is incorrect' exactly
\* when the supplied current password does not verify against the stored hash
\* of the authenticated user, and then changes no hash; otherwise it replaces
\* that user's hash, and no other, by a hash of the new password; as long as
\* that hash is the stored one, a Login of the user with the new password
\* succeeds and one with the old password fails.
C21_ChangePassword ==
  [][/\ \A s \in slots :
         /\ (At(s, "changePassword", "select") /\ req'[s] # req[s])
              => /\ ( /\ req'[s] = Idle
                      /\ last'.status = 400
                      /\ last'.msg = "Current password is incorrect" )
                    <=> ~bcryptCompare(req[s].currentPassword,
                                       users[req[s].user.userId].password_hash)
                 /\ users' = users
         /\ (At(s, "changePassword", "update") /\ req'[s] # req[s])
              => /\ last'.status = 200
                 /\ Len(users') = Len(users)
                 /\ bcryptCompare(req[s].newPassword,
                                  users'[req[s].user.userId].password_hash)
                 /\ users'[req[s].user.userId].password_hash
                      # users[req[s].user.userId].password_hash
                 /\ \A i \in 1..Len(users) :
                      i # req[s].user.userId => users'[i] = users[i]
     /\ (nreq' = nreq + 1 /\ last'.n = nreq' /\ last'.op = "login")
          => \A c \in hist.changed :
               ( /\ findUserByEmail(last'.email) # NoUser
                 /\ findUserByEmail(last'.email).id = c.userId
                 /\ findUserByEmail(last'.email).password_hash = c.hash )
               => /\ last'.password = c.new
                       => (last'.status = 200 /\ last'.user = c.userId)
                  /\ (last'.password = c.old /\ c.old # c.new)
                       => last'.status = 401]_vars

\* after a password change the user has logged in with the new password
C21_Witness ==
  /\ last.op = "login"
  /\ last.status = 200
  /\ \E c \in hist.changed :
       /\ c.userId = last.user
       /\ c.new = last.password
       /\ c.old # c.new
       /\ users[last.user].password_hash = c.hash

ConfigOps == {"getEnterpriseConfig", "updateEnterpriseConfig"}

\* C22: a request to the enterprise configuration endpoints that was
\* authenticated as a principal of enterprise A reads and writes only rows
\* whose enterprise_id is A.
C22_EnterpriseIsolation ==
  /\ \A s \in slots :
       req[s].op \in ConfigOps => req[s].id = req[s].user.enterpriseId
  /\ (last.op = "updateEnterpriseConfig" /\ last.status = 200)
       => last.config.enterprise_id = last.user.enterpriseId
  /\ (last.op = "getEnterpriseConfig" /\ last.status = 200)
       => \A r \in last.configs : r.enterprise_id = last.user.enterpriseId

\* the rows of a response
ResponseRows ==
  IF last.op = "getEnterpriseConfig" /\ last.status = 200 THEN last.configs
  ELSE IF last.op = "updateEnterpriseConfig" /\ last.status = 200 THEN {last.config}
  ELSE {}

\* C26: no response carries a token record that saveRefreshToken or
\* savePasswordResetToken stored; a reset request's response carries no token;
\* the refresh token of a Register or Login response belongs to the user of
\* that response.
C26_NoTokenDisclosure ==
  /\ \A r \in ResponseRows : r.id \notin hist.created
  /\ last.op = "forgotPassword" => DOMAIN last \cap {"token", "config", "configs"} = {}
  /\ (last.op \in {"register", "login"} /\ "refreshToken" \in DOMAIN last)
       => last.refreshToken.payload.userId = last.user

\* the requests README.md shows with an Authorization: Bearer header
DocumentedBearerOps ==
  ProtectedOps \cup {"getEnterpriseConfig", "updateProfile",
                     "sendAccountInvite", "getEnterpriseUsers"}

\* C23: the handler of an endpoint documented with Authorization: Bearer runs
\* only for a request whose bearer value verified under the access secret.
C23_DocumentedAuthEnforced ==
  /\ \A s \in slots :
       req[s].op \in DocumentedBearerOps => Verifies(req[s].header, req[s].authAt)
  /\ (last.op \in DocumentedBearerOps /\ last.handler)
       => Verifies(last.header, last.authAt)

\* C29: no two active directory entries share the same lower-cased email.
C29_ActiveEmailUnique ==
  \A i, j \in 1..Len(users) :
    (i # j /\ users[i].is_active /\ users[j].is_active)
      => toLowerCase(users[i].email) # toLowerCase(users[j].email)

\* the step of slot s that answers its request of kind op
Answers(s, op) ==
  /\ req[s].op = op
  /\ req'[s] = Idle
  /\ last'.n = req[s].n

\* C24: a Refresh does not succeed with a refresh token whose Logout has
\* completed, also when the Logout ran between the Refresh's look-up of the
\* token and its minting of the access token.
C24_NoRefreshAfterConcurrentLogout ==
  [][\A s \in slots :
       (Answers(s, "refresh") /\ last'.status = 200)
         => req[s].token \notin hist.loggedOut]_vars

\* C25: of the Reset Password requests presenting one reset token at most one
\* succeeds: a request does not succeed with a token that a successful Reset
\* Password has already used.
C25_ConcurrentResetAtMostOne ==
  [][\A s \in slots :
       (Answers(s, "resetPassword") /\ last'.status = 200)
         => req[s].token \notin hist.consumed]_vars

\* C27: the password hash of a deactivated user is never modified.
C27_DeactivatedHashFrozen ==
  [][\A i \in 1..Len(users) :
       ~users[i].is_active => users'[i].password_hash = users[i].password_hash]_vars

\* C28: no Refresh succeeds with a refresh token bound to a user whose Delete
\* Account has completed, whenever that token was persisted.
C28_NoRefreshForDeactivated ==
  [][/\ \A s \in slots :
          (Answers(s, "refresh") /\ last'.status = 200)
            => req[s].decoded.userId \notin hist.deleted
     /\ (nreq' # nreq /\ last'.n = nreq' /\ last'.op = "refresh")
          => last'.status # 200]_vars

\* a Refresh was refused for a deleted user although the token's record, saved
\* by a Register that finished after the deletion, is in the store
C28_Witness ==
  /\ last.op = "refresh"
  /\ last.status = 401
  /\ last.msg = "User not found"
  /\ last.token.payload.userId \in hist.deleted
  /\ RowsWithToken(REFRESH_TOKENS, last.token) # {}

\* C30: a Register request answered with an error leaves no active directory
\* entry for its email.
C30_RegisterAllOrNothing ==
  [][\A s \in slots :
       (Answers(s, "register") /\ last'.status >= 400)
         => \A i \in 1..Len(users') :
              ~(users'[i].email = req[s].user.email /\ users'[i].is_active)]_vars
====
